---- MODULE Spec2Model ----
(***************************************************************************)
(* Model of the HLS synthesis-job pipeline of hls_script.py                *)
(* (hls_evaluation with its nested parse_reports) and of the verification  *)
(* workflow of verify_c2c.py (verify_hls_code, verify_example).            *)
(*                                                                         *)
(* Text is a sequence of symbols.  A symbol is a single character, or a    *)
(* whole word for the words the parser searches for ("Clock", "Total",     *)
(* "min", ...), so that Python's substring test `pat in text` is the       *)
(* contiguous-subsequence test Contains(text, pat).                        *)
(* A line of a report is the sequence of its '|'-separated fields, i.e.    *)
(* exactly what line.split("|") returns: a line holds a '|' iff it has     *)
(* more than one field.  A report is a sequence of lines.                  *)
(***************************************************************************)
EXTENDS Integers, Sequences, FiniteSets, TLC

\* ------------------------------------------------------------------ text

Digits == {"0", "1", "2", "3", "4", "5", "6", "7", "8", "9"}

DigitVal(c) ==
    CASE c = "0" -> 0 [] c = "1" -> 1 [] c = "2" -> 2 [] c = "3" -> 3
      [] c = "4" -> 4 [] c = "5" -> 5 [] c = "6" -> 6 [] c = "7" -> 7
      [] c = "8" -> 8 [] c = "9" -> 9

SetMin(S) == CHOOSE x \in S : \A y \in S : x <= y

Spaces(n) == [i \in 1..n |-> " "]

RECURSIVE LStrip(_)
LStrip(s) == IF s # <<>> /\ s[1] = " " THEN LStrip(Tail(s)) ELSE s

RECURSIVE RStrip(_)
RStrip(s) ==
    IF s # <<>> /\ s[Len(s)] = " " THEN RStrip(SubSeq(s, 1, Len(s) - 1)) ELSE s

\* str.strip()
Strip(s) == RStrip(LStrip(s))

\* pat in s
Contains(s, pat) ==
    \E i \in 1..(Len(s) - Len(pat) + 1) : SubSeq(s, i, i + Len(pat) - 1) = pat

\* The output streams of the process are long texts of few distinct
\* characters: they are kept run-length encoded, as a sequence of runs of
\* n >= 1 copies of a symbol c.
Run(c, n) == [c |-> c, n |-> n]

RECURSIVE RunsLen(_)
RunsLen(s) == IF s = <<>> THEN 0 ELSE Head(s).n + RunsLen(Tail(s))

\* The text a run-length encoded stream stands for.
RECURSIVE Expand(_)
Expand(s) ==
    IF s = <<>> THEN <<>>
    ELSE [i \in 1..Head(s).n |-> Head(s).c] \o Expand(Tail(s))

\* s[-n:] of a run-length encoded stream
RECURSIVE LastOfRuns(_, _)
LastOfRuns(s, n) ==
    IF n <= 0 \/ s = <<>> THEN <<>>
    ELSE LET r == s[Len(s)]
         IN  IF r.n >= n THEN <<Run(r.c, n)>>
             ELSE LastOfRuns(SubSeq(s, 1, Len(s) - 1), n - r.n) \o <<r>>

\* --------------------------------------------------- Python values, dicts

PyInt(n) == [t |-> "int", v |-> n]

\* A float is kept as mantissa m and decimal exponent e (value m / 10^e),
\* normalised so that 5.00, 5.0 and 5 are the same value.
PyFloat(m, e) == [t |-> "float", m |-> m, e |-> e]

PyStr(s) == [t |-> "str", v |-> s]

EmptyDict == << >>

\* bool(d) of a dict d
Truthy(d) == DOMAIN d # {}

IsDigits(s) == Len(s) >= 1 /\ \A i \in 1..Len(s) : s[i] \in Digits

RECURSIVE DigitsVal(_)
DigitsVal(s) ==
    IF s = <<>> THEN 0
    ELSE DigitsVal(SubSeq(s, 1, Len(s) - 1)) * 10 + DigitVal(s[Len(s)])

Unsigned(s) == IF s # <<>> /\ s[1] \in {"+", "-"} THEN Tail(s) ELSE s

Sign(s) == IF s # <<>> /\ s[1] = "-" THEN -1 ELSE 1

\* int(s) succeeds: optional blanks, optional sign, one or more digits.
IntOk(s) == IsDigits(Unsigned(Strip(s)))

IntVal(s) == Sign(Strip(s)) * DigitsVal(Unsigned(Strip(s)))

\* Position of the decimal point of s, 0 when it has none.
PointAt(s) ==
    IF \E i \in 1..Len(s) : s[i] = "."
    THEN SetMin({i \in 1..Len(s) : s[i] = "."})
    ELSE 0

\* float(s) succeeds: optional blanks, optional sign, digits with at most one
\* decimal point and at least one digit (the decimal grammar over the symbols
\* of the model; exponents, inf and nan are not in its alphabet).
FloatOk(s) ==
    LET u == Unsigned(Strip(s))
        p == PointAt(u)
        a == IF p = 0 THEN u ELSE SubSeq(u, 1, p - 1)
        b == IF p = 0 THEN <<>> ELSE SubSeq(u, p + 1, Len(u))
    IN  /\ a = <<>> \/ IsDigits(a)
        /\ b = <<>> \/ IsDigits(b)
        /\ Len(a) + Len(b) >= 1

RECURSIVE Normalise(_, _)
Normalise(m, e) ==
    IF e > 0 /\ m % 10 = 0 THEN Normalise(m \div 10, e - 1) ELSE PyFloat(m, e)

FloatVal(s) ==
    LET u == Unsigned(Strip(s))
        p == PointAt(u)
        a == IF p = 0 THEN u ELSE SubSeq(u, 1, p - 1)
        b == IF p = 0 THEN <<>> ELSE SubSeq(u, p + 1, Len(u))
        n == Normalise(DigitsVal(a \o b), Len(b))
    IN  PyFloat(Sign(Strip(s)) * n.m, n.e)

\* safe_convert with the unknown marker read as zero.
safe_convert_zero(value_str) ==
    LET v == Strip(value_str)
    IN  IF v = <<"?">> THEN PyInt(0)
        ELSE IF IntOk(v) THEN PyInt(IntVal(v))
        ELSE IF FloatOk(v) THEN FloatVal(v)
        ELSE PyStr(v)

\* safe_convert of the latency fields
safe_convert(value_str) ==
    LET v == Strip(value_str)
    IN  IF v = <<"?">> THEN PyStr(<<"?">>)
        ELSE IF IntOk(v) THEN PyInt(IntVal(v))
        ELSE IF FloatOk(v) THEN FloatVal(v)
        ELSE PyStr(v)

\* safe_resource_convert of the used/available utilization cells
\* safe_resource_convert with the dash kept as text.
safe_resource_convert_dash(value_str) ==
    LET v == Strip(value_str)
    IN  IF v = <<"?">> THEN PyStr(<<"?">>)
        ELSE IF IntOk(v) THEN PyInt(IntVal(v))
        ELSE IF FloatOk(v) THEN FloatVal(v)
        ELSE PyStr(v)

safe_resource_convert(value_str) ==
    LET v == Strip(value_str)
    IN  IF v = <<"?">> THEN PyStr(<<"?">>)
        ELSE IF v = <<"-">> THEN PyInt(0)
        ELSE IF IntOk(v) THEN PyInt(IntVal(v))
        ELSE IF FloatOk(v) THEN FloatVal(v)
        ELSE PyStr(v)

\* ------------------------------------------------------- report lines

Blank == << >>

\* A table row |c1|c2|...|cn| : split("|") gives an empty first and last part.
Row(cells) == <<Blank>> \o cells \o <<Blank>>

RECURSIVE BorderText(_)
BorderText(widths) ==
    IF widths = <<>> THEN <<"+">>
    ELSE <<"+">> \o [i \in 1..Head(widths) |-> "-"] \o BorderText(Tail(widths))

HasBar(line) == Len(line) > 1

LineContains(line, pat) == \E f \in 1..Len(line) : Contains(line[f], pat)

IsBlankLine(line) == Len(line) = 1 /\ Strip(line[1]) = <<>>

\* The line without its leading and trailing blanks (the \s+ of the patterns).
TrimLine(line) ==
    [k \in 1..Len(line) |->
        IF Len(line) = 1 THEN Strip(line[k])
        ELSE IF k = 1 THEN LStrip(line[k])
        ELSE IF k = Len(line) THEN RStrip(line[k])
        ELSE line[k]]

IsLit(line, lit) == TrimLine(line) = lit

\* =+
IsRule(line) ==
    /\ Len(line) = 1
    /\ LET t == Strip(line[1])
       IN  Len(t) >= 1 /\ \A i \in 1..Len(t) : t[i] = "="

RECURSIVE DashRun(_)
DashRun(t) == IF t # <<>> /\ t[1] = "-" THEN 1 + DashRun(Tail(t)) ELSE 0

\* The widths of the dash runs of "-...-+-...-+", <<-1>> when it is not of this form.
RECURSIVE Runs(_)
Runs(t) ==
    IF t = <<>> THEN <<>>
    ELSE LET n == DashRun(t)
         IN  IF n < Len(t) /\ t[n + 1] = "+"
             THEN LET rest == Runs(SubSeq(t, n + 2, Len(t)))
                  IN  IF rest = <<-1>> THEN <<-1>> ELSE <<n>> \o rest
             ELSE <<-1>>

BorderWidths(line) ==
    IF Len(line) # 1 THEN <<-1>>
    ELSE LET t == Strip(line[1])
         IN  IF t = <<>> \/ t[1] # "+" THEN <<-1>> ELSE Runs(Tail(t))

\* \|([^|]+)\| ... \| with n groups, blanks only before and after
IsDataRow(line, n) ==
    /\ Len(line) = n + 2
    /\ Strip(line[1]) = <<>>
    /\ Strip(line[n + 2]) = <<>>
    /\ \A k \in 2..(n + 1) : Len(line[k]) >= 1

Cells(line) == SubSeq(line, 2, Len(line) - 1)

\* The literal lines of the three patterns.
PerfHeaderLine == << <<"=", "=", " ", "Performance", " ", "Estimates">> >>

TimingHeaderLine == << <<"+", " ", "Timing", " ", "(ns)", ":">> >>

SummaryLine == << <<"*", " ", "Summary", ":">> >>

TimingBorderWidths == <<8, 7, 10, 12>>

TimingColsLine ==
    Row(<< <<" ", " ", "Clock", " ">>, <<" ", "Target">>,
           <<" ", "Estimated">>, <<" ", "Uncertainty">> >>)

LatencyHeaderLine ==
    << <<"+", " ", "Latency", " ", "(clock", " ", "cycles)", ":">> >>

LatencyColsLine1 ==
    Row(<< <<" ", " ", "Latency", " ", " ">>, <<" ", " ", "Interval", " ">>,
           <<" ", "Pipeline">> >>)

LatencyColsLine2 ==
    Row(<< <<" ", "min", " ">>, <<" ", "max", " ">>, <<" ", "min", " ">>,
           <<" ", "max", " ">>, <<" ", " ", " ", "Type", " ", " ">> >>)

UtilHeaderLine == << <<"=", "=", " ", "Utilization", " ", "Estimates">> >>

UtilBorderWidths == <<17, 9, 7, 8, 8, 5>>

UtilColsLine ==
    Row(<< Spaces(7) \o <<"Name">> \o Spaces(6), <<" ", "BRAM_18K">>,
           <<" ", "DSP48E">>, Spaces(3) \o <<"FF">> \o Spaces(3),
           Spaces(3) \o <<"LUT">> \o Spaces(2), <<" ", "URAM">> >>)

\* \+-----+\+-----+\+-----+\+-----+\+---------\+
IsLatencyBorder(line) ==
    LET r == BorderWidths(line)
    IN  Len(r) = 5 /\ (\A k \in 1..4 : r[k] >= 5) /\ r[5] = 9

NonBlank(content) == SelectSeq(content, LAMBDA l : ~IsBlankLine(l))

NoMatch == [matched |-> FALSE, groups |-> <<>>]

\* ------------------------------------------- structural match (re.search)

\* The pattern of the timing section, tried at the i-th non-blank line.
TimingAt(nb, i) ==
    /\ i + 8 <= Len(nb)
    /\ IsLit(nb[i], PerfHeaderLine)
    /\ IsRule(nb[i + 1])
    /\ IsLit(nb[i + 2], TimingHeaderLine)
    /\ IsLit(nb[i + 3], SummaryLine)
    /\ BorderWidths(nb[i + 4]) = TimingBorderWidths
    /\ IsLit(nb[i + 5], TimingColsLine)
    /\ BorderWidths(nb[i + 6]) = TimingBorderWidths
    /\ IsDataRow(nb[i + 7], 4)
    /\ BorderWidths(nb[i + 8]) = TimingBorderWidths

\* The match at the first position of `at` (re.search: leftmost), its groups
\* being the cells of the data row `row` lines further
FirstMatch(nb, at, row) ==
    IF at = {} THEN NoMatch
    ELSE [matched |-> TRUE, groups |-> Cells(nb[SetMin(at) + row])]

timing_section(content) ==
    FirstMatch(NonBlank(content),
               {i \in 1..Len(NonBlank(content)) : TimingAt(NonBlank(content), i)},
               7)

LatencyAt(nb, i) ==
    /\ i + 7 <= Len(nb)
    /\ IsLit(nb[i], LatencyHeaderLine)
    /\ IsLit(nb[i + 1], SummaryLine)
    /\ IsLatencyBorder(nb[i + 2])
    /\ IsLit(nb[i + 3], LatencyColsLine1)
    /\ IsLit(nb[i + 4], LatencyColsLine2)
    /\ IsLatencyBorder(nb[i + 5])
    /\ IsDataRow(nb[i + 6], 5)
    /\ IsLatencyBorder(nb[i + 7])

latency_section(content) ==
    FirstMatch(NonBlank(content),
               {i \in 1..Len(NonBlank(content)) : LatencyAt(NonBlank(content), i)},
               6)

\* Columns of the utilization table: Name and the five resource kinds.
GroupsPerRow == 6

\* Rows of the first block of the utilization pattern.
DetailRows == 7

UtilAt(nb, i) ==
    /\ i + DetailRows + 12 <= Len(nb)
    /\ IsLit(nb[i], UtilHeaderLine)
    /\ IsRule(nb[i + 1])
    /\ IsLit(nb[i + 2], SummaryLine)
    /\ BorderWidths(nb[i + 3]) = UtilBorderWidths
    /\ IsLit(nb[i + 4], UtilColsLine)
    /\ BorderWidths(nb[i + 5]) = UtilBorderWidths
    /\ \A k \in 1..DetailRows : IsDataRow(nb[i + 5 + k], GroupsPerRow)
    /\ BorderWidths(nb[i + DetailRows + 6]) = UtilBorderWidths
    /\ IsDataRow(nb[i + DetailRows + 7], GroupsPerRow)
    /\ BorderWidths(nb[i + DetailRows + 8]) = UtilBorderWidths
    /\ IsDataRow(nb[i + DetailRows + 9], GroupsPerRow)
    /\ BorderWidths(nb[i + DetailRows + 10]) = UtilBorderWidths
    /\ IsDataRow(nb[i + DetailRows + 11], GroupsPerRow)
    /\ BorderWidths(nb[i + DetailRows + 12]) = UtilBorderWidths

RECURSIVE ConcatCells(_, _, _)
ConcatCells(nb, i, n) ==
    IF n = 0 THEN <<>> ELSE Cells(nb[i]) \o ConcatCells(nb, i + 1, n - 1)

UtilGroups(nb, i0) ==
    ConcatCells(nb, i0 + 6, DetailRows)
        \o Cells(nb[i0 + DetailRows + 7])
        \o Cells(nb[i0 + DetailRows + 9])
        \o Cells(nb[i0 + DetailRows + 11])

UtilFirst(nb, at) ==
    IF at = {} THEN NoMatch
    ELSE [matched |-> TRUE, groups |-> UtilGroups(nb, SetMin(at))]

utilization_section(content) ==
    UtilFirst(NonBlank(content),
              {i \in 1..Len(NonBlank(content)) : UtilAt(NonBlank(content), i)})

\* --------------------------------------------------------- parse_reports

ResourceKinds == <<"BRAM", "DSP", "FF", "LUT", "URAM">>

\* report_results as created before the sections are parsed
Skeleton ==
    [timing |-> EmptyDict,
     latency |-> EmptyDict,
     utilization |-> [resources |-> EmptyDict,
                      utilization_percentage |-> EmptyDict]]

\* The parser's position: the exception raised so far ("none" when none),
\* report_results, whether the nested functions safe_convert and
\* safe_resource_convert have been defined, whether the fallback ran.
ParseStart ==
    [exc |-> "none", rr |-> Skeleton, sc |-> FALSE, src |-> FALSE, fb |-> FALSE]

Raise(st, e) == [st EXCEPT !.exc = e]

TimingDict(clock, target, estimated, uncertainty) ==
    [clock |-> Strip(clock),
     target |-> FloatVal(target),
     estimated |-> FloatVal(estimated),
     uncertainty |-> FloatVal(uncertainty)]

LatencyDict(a, b, c, d, e) ==
    [min |-> safe_convert(Strip(a)),
     max |-> safe_convert(Strip(b)),
     interval_min |-> safe_convert(Strip(c)),
     interval_max |-> safe_convert(Strip(d)),
     pipeline_type |-> Strip(e)]

\* `if timing_section:` and its body, m being the match
\* The timing block keeping the fields it could read.
TimingStepPartial(m, st) ==
    IF st.exc # "none" \/ ~m.matched THEN st
    ELSE IF \A k \in 2..4 : FloatOk(Strip(m.groups[k]))
    THEN [st EXCEPT !.rr.timing =
            TimingDict(m.groups[1], m.groups[2], m.groups[3], m.groups[4])]
    ELSE [st EXCEPT !.rr.timing = [clock |-> Strip(m.groups[1])]]

TimingStep(m, st) ==
    IF st.exc # "none" \/ ~m.matched THEN st
    ELSE IF \A k \in 2..4 : FloatOk(Strip(m.groups[k]))
    THEN [st EXCEPT !.rr.timing =
            TimingDict(m.groups[1], m.groups[2], m.groups[3], m.groups[4])]
    ELSE Raise(st, "ValueError")

StructTiming(content, st) == TimingStep(timing_section(content), st)

\* `if latency_section:` and its body, which also defines safe_convert
LatencyStep(m, st) ==
    IF st.exc # "none" \/ ~m.matched THEN st
    ELSE [st EXCEPT !.sc = TRUE,
                    !.rr.latency =
                        LatencyDict(m.groups[1], m.groups[2], m.groups[3],
                                    m.groups[4], m.groups[5])]

StructLatency(content, st) == LatencyStep(latency_section(content), st)

\* for i in range(ScanFrom, ScanTo + 1)
ScanFrom == 1

ScanTo == 9

Total == <<"Total">>

Available == <<"Available">>

Utilization == <<"Utilization">>

\* The three row indexes after the scan of rows i.. of the match m
\* (row i is the row whose label is group i * 6 + 1).
\* One turn of the scan: the if/elif chain on the label of row i, group g
ScanRow(groups, i, g, idx) ==
    IF ~(g < Len(groups)) THEN idx
    ELSE IF Contains(groups[g], Total) THEN [idx EXCEPT !.total = i]
    ELSE IF Contains(groups[g], Available) THEN [idx EXCEPT !.available = i]
    ELSE IF Contains(groups[g], Utilization) THEN [idx EXCEPT !.utilization = i]
    ELSE idx

\* The scan with the three rows taken by their place in the table.
ScanRowsByPlace(m, i, idx) ==
    [total |-> DetailRows, available |-> DetailRows + 1,
     utilization |-> DetailRows + 2]

RECURSIVE ScanRows(_, _, _)
ScanRows(m, i, idx) ==
    IF i > ScanTo THEN idx
    ELSE ScanRows(m, i + 1, ScanRow(m.groups, i, i * GroupsPerRow + 1, idx))


\* The five resource cells of row `row` of the match, stripped, and converted
\* by safe_resource_convert when numeric (the used and the available row).
ConvertedRow(m, row, numeric) ==
    [k \in {ResourceKinds[j] : j \in 1..5} |->
        LET j == CHOOSE j \in 1..5 : ResourceKinds[j] = k
            cell == Strip(m.groups[row * GroupsPerRow + 1 + j])
        IN  IF numeric THEN safe_resource_convert(cell) ELSE cell]

\* report_results["utilization"] after the three `if ..._idx > 0` blocks
UtilizationDict(m, idx, u0) ==
    [k \in DOMAIN u0 \cup (IF idx.available > 0 THEN {"available"} ELSE {}) |->
        CASE k = "resources" ->
                IF idx.total > 0
                THEN ConvertedRow(m, idx.total, TRUE)
                ELSE u0[k]
          [] k = "available" ->
                ConvertedRow(m, idx.available, TRUE)
          [] k = "utilization_percentage" ->
                IF idx.utilization > 0
                THEN ConvertedRow(m, idx.utilization, FALSE)
                ELSE u0[k]]

\* `if utilization_section:` and its body, which also defines
\* safe_resource_convert
UtilizationStep(m, st) ==
    IF st.exc # "none" \/ ~m.matched THEN st
    ELSE [st EXCEPT !.src = TRUE,
                    !.rr.utilization =
                        UtilizationDict(
                            m,
                            ScanRows(m, ScanFrom,
                                     [total |-> 0, available |-> 0,
                                      utilization |-> 0]),
                            st.rr.utilization)]

StructUtilization(content, st) ==
    UtilizationStep(utilization_section(content), st)

\* ------------------------------------------ heuristic fallback (splits)

TimingKey == <<"Timing", " ", "(ns)">>

LatencyKey == <<"Latency", " ", "(clock", " ", "cycles)">>

UtilKey == <<"Utilization", " ", "Estimates">>

SummaryKey == <<"*", " ", "Summary", ":">>

\* The indexes of the lines that hold key (key in content: there is one)
KeyLines(lines, key) == {i \in 1..Len(lines) : LineContains(lines[i], key)}

\* The lines after line a, up to the next line of hits (or the end)
UpToNext(lines, hits, a) ==
    IF \E i \in hits : i > a
    THEN SubSeq(lines, a + 1, SetMin({i \in hits : i > a}) - 1)
    ELSE SubSeq(lines, a + 1, Len(lines))

\* text.split(key)[1], as lines: what stands between the first and the second
\* occurrence of key (or the end); no [1] exists when key does not occur.
\* The lines that hold the key itself are left out: they hold no '|' in the
\* reports of the model, and the fallback only looks at lines with a '|'.
SplitSecond(lines, key) ==
    IF KeyLines(lines, key) = {} THEN [ok |-> FALSE, lines |-> <<>>]
    ELSE [ok |-> TRUE,
          lines |-> UpToNext(lines, KeyLines(lines, key),
                             SetMin(KeyLines(lines, key)))]

\* content.split(key)[1].split("* Summary:")[1].split("\n")
SectionLines(content, key) ==
    IF ~SplitSecond(content, key).ok THEN SplitSecond(content, key)
    ELSE SplitSecond(SplitSecond(content, key).lines, SummaryKey)

\* '|' in line and word not in line and '---' not in line, len(parts) >= n
DataLines(ls, word, n) ==
    {i \in 1..Len(ls) :
        /\ HasBar(ls[i])
        /\ ~LineContains(ls[i], word)
        /\ ~LineContains(ls[i], <<"-", "-", "-">>)
        /\ Len(ls[i]) >= n}

\* The loop over timing_lines: the first line of hit is parsed
FallbackTimingLines(ls, hit, st) ==
    IF hit = {} THEN st
    ELSE IF \A k \in 3..5 : FloatOk(Strip(ls[SetMin(hit)][k]))
    THEN [st EXCEPT !.rr.timing =
            TimingDict(ls[SetMin(hit)][2], ls[SetMin(hit)][3],
                       ls[SetMin(hit)][4], ls[SetMin(hit)][5])]
    ELSE Raise(st, "ValueError")

FallbackTiming(content, st) ==
    IF st.exc # "none" \/ KeyLines(content, TimingKey) = {} THEN st
    ELSE IF ~SectionLines(content, TimingKey).ok THEN Raise(st, "IndexError")
    ELSE FallbackTimingLines(
             SectionLines(content, TimingKey).lines,
             DataLines(SectionLines(content, TimingKey).lines, <<"Clock">>, 5),
             st)

\* The loop over latency_lines; safe_convert is a local of parse_reports that
\* is bound only in the body of `if latency_section:`
FallbackLatencyLines(ls, hit, st) ==
    IF hit = {} THEN st
    ELSE IF ~st.sc THEN Raise(st, "UnboundLocalError")
    ELSE [st EXCEPT !.rr.latency =
            LatencyDict(ls[SetMin(hit)][2], ls[SetMin(hit)][3],
                        ls[SetMin(hit)][4], ls[SetMin(hit)][5],
                        ls[SetMin(hit)][6])]

FallbackLatency(content, st) ==
    IF st.exc # "none" \/ KeyLines(content, LatencyKey) = {} THEN st
    ELSE IF ~SectionLines(content, LatencyKey).ok THEN Raise(st, "IndexError")
    ELSE FallbackLatencyLines(
             SectionLines(content, LatencyKey).lines,
             DataLines(SectionLines(content, LatencyKey).lines, <<"min">>, 7),
             st)

SetMax(S) == CHOOSE x \in S : \A y \in S : x >= y

\* The five resource parts of a fallback line, stripped, and converted by
\* safe_resource_convert when numeric; the URAM part is `dflt` when the line
\* has no seventh part.
FallbackRow(parts, numeric, dflt) ==
    [k \in {ResourceKinds[j] : j \in 1..5} |->
        LET j == CHOOSE j \in 1..5 : ResourceKinds[j] = k
            cell == IF j = 5 /\ ~(Len(parts) > 6) THEN dflt
                    ELSE Strip(parts[j + 2])
        IN  IF numeric THEN safe_resource_convert(cell) ELSE cell]

\* The branch of the if/elif chain a line of the utilization section takes
LineKind(line) ==
    IF ~HasBar(line) THEN "none"
    ELSE IF LineContains(line, Total) THEN "total"
    ELSE IF LineContains(line, Available) THEN "available"
    ELSE IF LineContains(line, Utilization) THEN "utilization"
    ELSE "none"

KindLines(ls, kind) == {i \in 1..Len(ls) : LineKind(ls[i]) = kind}

\* After the loop over util_lines: T, A, U are the lines of each kind, the
\* last of which is total_line, available_line, utilization_line;
\* safe_resource_convert is bound only in the body of `if utilization_section:`
FallbackUtilizationLines(ls, T, A, U, st) ==
    IF T = {} \/ A = {} \/ U = {} THEN st
    ELSE IF ~(Len(ls[SetMax(T)]) >= 6 /\ Len(ls[SetMax(A)]) >= 6
                /\ Len(ls[SetMax(U)]) >= 6) THEN st
    ELSE IF ~st.src THEN Raise(st, "UnboundLocalError")
    ELSE [st EXCEPT !.rr.utilization =
            [resources |->
                FallbackRow(ls[SetMax(T)], TRUE, <<"0">>),
             available |->
                FallbackRow(ls[SetMax(A)], TRUE, <<"0">>),
             utilization_percentage |->
                FallbackRow(ls[SetMax(U)], FALSE, <<"0", "%">>)]]

FallbackUtilization(content, st) ==
    IF st.exc # "none" \/ KeyLines(content, UtilKey) = {} THEN st
    ELSE IF ~SectionLines(content, UtilKey).ok THEN Raise(st, "IndexError")
    ELSE FallbackUtilizationLines(
             SectionLines(content, UtilKey).lines,
             KindLines(SectionLines(content, UtilKey).lines, "total"),
             KindLines(SectionLines(content, UtilKey).lines, "available"),
             KindLines(SectionLines(content, UtilKey).lines, "utilization"),
             st)

\* if not timing_section and not latency_section and not utilization_section:
\* the fallback is entered (and its warning printed).
\* The fallback entered as soon as one of the three patterns fails.
EnterFallbackAny(content, st) ==
    IF \/ st.exc # "none"
       \/ /\ timing_section(content).matched
          /\ latency_section(content).matched
          /\ utilization_section(content).matched
    THEN st
    ELSE [st EXCEPT !.fb = TRUE]

EnterFallback(content, st) ==
    IF \/ st.exc # "none"
       \/ timing_section(content).matched
       \/ latency_section(content).matched
       \/ utilization_section(content).matched
    THEN st
    ELSE [st EXCEPT !.fb = TRUE]

Stage(name, content, st) ==
    CASE name = "timing" -> StructTiming(content, st)
      [] name = "latency" -> StructLatency(content, st)
      [] name = "utilization" -> StructUtilization(content, st)
      [] name = "fallback" -> EnterFallback(content, st)
      [] name = "fallback_timing" ->
            IF st.fb THEN FallbackTiming(content, st) ELSE st
      [] name = "fallback_latency" ->
            IF st.fb THEN FallbackLatency(content, st) ELSE st
      [] name = "fallback_utilization" ->
            IF st.fb THEN FallbackUtilization(content, st) ELSE st

RECURSIVE RunStages(_, _, _)
RunStages(stages, content, st) ==
    IF stages = <<>> THEN st
    ELSE RunStages(Tail(stages), content, Stage(Head(stages), content, st))

\* The body of the try block once the file is read, its statements in order:
\* the parser's last position.
ParseContent(content) ==
    RunStages(<<"timing", "latency", "utilization", "fallback",
                "fallback_timing", "fallback_latency", "fallback_utilization">>,
              content, ParseStart)

\* What the try block of parse_reports returns for a report file: the parsed
\* report_results, or the except branch's dict when reading or parsing raised.
\* The except branch returning what had been parsed so far.
ParseOutcomePartial(st) ==
    [exc |-> st.exc,
     fb |-> st.fb,
     partial |-> st.rr,
     ret |-> st.rr]

ParseOutcome(st) ==
    [exc |-> st.exc,
     fb |-> st.fb,
     partial |-> st.rr,
     ret |-> IF st.exc = "none" THEN st.rr
             ELSE [error |-> <<"parse error: ", st.exc>>,
                   timing |-> EmptyDict,
                   latency |-> EmptyDict,
                   utilization |-> EmptyDict]]

ParseFile(file) ==
    IF file.readable THEN ParseOutcome(ParseContent(file.lines))
    ELSE ParseOutcome(Raise(ParseStart, "UnicodeDecodeError"))

\* The not-found dict built on the metrics skeleton of the try block.
ReportNotFoundSkeleton ==
    [error |-> <<"report not found">>,
     timing |-> Skeleton.timing,
     latency |-> Skeleton.latency,
     utilization |-> Skeleton.utilization]

\* The dict parse_reports returns when the poll found no report
ReportNotFound ==
    [error |-> <<"report not found">>,
     timing |-> EmptyDict,
     latency |-> EmptyDict,
     utilization |-> EmptyDict]

\* ----------------------------------------------------- report catalogue
\* The texts the tool may leave in <top>_csynth.rpt.  A section is written
\* "bordered" (the layout of the structural pattern), "plain" (the same lines
\* without the border lines), "nosummary" (plain, and without the
\* "* Summary:" line) or "none" (the section is not in the report).

RuleLine == << <<"=", "=", "=", "=">> >>

TimingSection(form, cells) ==
    CASE form = "bordered" ->
            <<PerfHeaderLine, RuleLine, TimingHeaderLine, SummaryLine,
              <<BorderText(TimingBorderWidths)>>, TimingColsLine,
              <<BorderText(TimingBorderWidths)>>, Row(cells),
              <<BorderText(TimingBorderWidths)>>>>
      [] form = "plain" ->
            <<PerfHeaderLine, RuleLine, TimingHeaderLine, SummaryLine,
              TimingColsLine, Row(cells)>>
      [] form = "nosummary" ->
            <<PerfHeaderLine, RuleLine, TimingHeaderLine, TimingColsLine,
              Row(cells)>>
      [] form = "none" -> <<>>

LatencyBorderWidths == <<5, 5, 5, 5, 9>>

LatencySection(form, cells) ==
    CASE form = "bordered" ->
            <<LatencyHeaderLine, SummaryLine, <<BorderText(LatencyBorderWidths)>>,
              LatencyColsLine1, LatencyColsLine2,
              <<BorderText(LatencyBorderWidths)>>, Row(cells),
              <<BorderText(LatencyBorderWidths)>>>>
      [] form = "plain" ->
            <<LatencyHeaderLine, SummaryLine, LatencyColsLine1,
              LatencyColsLine2, Row(cells)>>
      [] form = "none" -> <<>>

RECURSIVE RowLines(_)
RowLines(rows) ==
    IF rows = <<>> THEN <<>> ELSE <<Row(Head(rows))>> \o RowLines(Tail(rows))

\* rows: the ten data rows of the table, the last three each in a block of its own
UtilizationSection(form, rows) ==
    CASE form = "bordered" ->
            <<UtilHeaderLine, RuleLine, SummaryLine,
              <<BorderText(UtilBorderWidths)>>, UtilColsLine,
              <<BorderText(UtilBorderWidths)>>>>
            \o RowLines(SubSeq(rows, 1, DetailRows))
            \o <<<<BorderText(UtilBorderWidths)>>, Row(rows[DetailRows + 1]),
                 <<BorderText(UtilBorderWidths)>>, Row(rows[DetailRows + 2]),
                 <<BorderText(UtilBorderWidths)>>, Row(rows[DetailRows + 3]),
                 <<BorderText(UtilBorderWidths)>>>>
      [] form = "plain" ->
            <<UtilHeaderLine, RuleLine, SummaryLine, UtilColsLine>>
            \o RowLines(rows)
      [] form = "none" -> <<>>

TimingGood ==
    << <<"ap_clk", " ", " ">>, <<" ", " ", "5", ".", "0", "0">>,
       <<" ", "3", ".", "4", "5">>, <<" ", "0", ".", "6", "2">> >>

\* the clock cell holds blanks only
TimingBlankClock == [TimingGood EXCEPT ![1] = Spaces(3)]

\* the target cell is no number
TimingBadTarget == [TimingGood EXCEPT ![2] = <<" ", " ", "?">>]

LatencyGood ==
    << <<" ", "1", "0", "2">>, <<" ", " ", "?">>, <<" ", "1", ".", "5">>,
       <<" ", "1", "~", "2">>, <<" ", "none", " ">> >>

\* The ten rows of the utilization table: seven detail rows, then Total,
\* Available and Utilization (%).
UtilCanonical ==
    LET Dash == <<" ", "-">>
        DetailRow(label) == << <<label, " ">>, Dash, Dash, Dash, Dash, Dash>>
    IN  <<DetailRow("DSP"), DetailRow("Expression"), DetailRow("FIFO"),
          DetailRow("Instance"), DetailRow("Memory"),
          DetailRow("Multiplexer"), DetailRow("Register"),
          << <<"Total", " ">>, <<" ", "0">>, Dash, <<" ", " ", "1", "5">>,
             <<" ", " ", "7", "5">>, <<" ", "?">> >>,
          << <<"Available", " ">>, <<" ", "6", "2", "4">>,
             <<" ", "1", "7", "2">>, <<" ", "4", "6", "0">>,
             <<" ", "2", "3", "0">>, <<" ", " ", "9", "6">> >>,
          << <<"Utilization", " ", "(%)">>, <<" ", "0">>, <<" ", "0">>,
             <<" ", "~", "0", " ">>, <<" ", "~", "0", " ">>, <<" ", "0">> >> >>

Report(t, l, u) ==
    [readable |-> TRUE, lines |-> t \o << <<Blank>> >> \o l \o << <<Blank>> >> \o u]

\* Reports whose utilization table differs from the canonical one in the
\* order or the labels of its rows only.
RowVariants ==
    {"rows_TUA", "rows_ATU", "rows_AUT", "rows_UTA", "rows_UAT",
     "total_first", "total_twice"}

\* The ten rows of the utilization table of a row variant: the last three
\* rows permuted (T, A, U name Total, Available, Utilization), the Total row
\* exchanged with the first detail row, or a second row labelled Total, with
\* the cells of the Available row, standing second.
UtilRows(name) ==
    LET d == SubSeq(UtilCanonical, 1, DetailRows)
        T == UtilCanonical[DetailRows + 1]
        A == UtilCanonical[DetailRows + 2]
        U == UtilCanonical[DetailRows + 3]
    IN  CASE name = "rows_TUA" -> d \o <<T, U, A>>
          [] name = "rows_ATU" -> d \o <<A, T, U>>
          [] name = "rows_AUT" -> d \o <<A, U, T>>
          [] name = "rows_UTA" -> d \o <<U, T, A>>
          [] name = "rows_UAT" -> d \o <<U, A, T>>
          [] name = "total_first" -> <<T>> \o Tail(d) \o <<d[1], A, U>>
          [] name = "total_twice" ->
                <<d[1], <<T[1]>> \o Tail(A)>> \o SubSeq(d, 3, DetailRows)
                    \o <<T, A, U>>

ReportNames ==
    {"good", "blank_clock", "bad_target", "plain", "plain_timing",
     "plain_bad_target", "no_summary", "latency_only", "timing_only_bordered",
     "plain_timing_latency", "empty", "undecodable"} \cup RowVariants

\* The content of the report file with the given name.
Content(name) ==
    CASE name = "good" ->
            Report(TimingSection("bordered", TimingGood),
                   LatencySection("bordered", LatencyGood),
                   UtilizationSection("bordered", UtilCanonical))
      [] name = "blank_clock" ->
            Report(TimingSection("bordered", TimingBlankClock),
                   LatencySection("bordered", LatencyGood),
                   UtilizationSection("bordered", UtilCanonical))
      [] name = "bad_target" ->
            Report(TimingSection("bordered", TimingBadTarget),
                   LatencySection("bordered", LatencyGood),
                   UtilizationSection("bordered", UtilCanonical))
      [] name = "plain" ->
            Report(TimingSection("plain", TimingGood),
                   LatencySection("plain", LatencyGood),
                   UtilizationSection("plain", UtilCanonical))
      [] name = "plain_timing" ->
            Report(TimingSection("plain", TimingGood),
                   LatencySection("none", <<>>),
                   UtilizationSection("none", <<>>))
      [] name = "plain_bad_target" ->
            Report(TimingSection("plain", TimingBadTarget),
                   LatencySection("none", <<>>),
                   UtilizationSection("none", <<>>))
      [] name = "no_summary" ->
            Report(TimingSection("nosummary", TimingGood),
                   LatencySection("none", <<>>),
                   UtilizationSection("none", <<>>))
      [] name = "latency_only" ->
            Report(TimingSection("none", <<>>),
                   LatencySection("bordered", LatencyGood),
                   UtilizationSection("none", <<>>))
      [] name = "timing_only_bordered" ->
            Report(TimingSection("bordered", TimingGood),
                   LatencySection("plain", LatencyGood),
                   UtilizationSection("plain", UtilCanonical))
      [] name = "plain_timing_latency" ->
            Report(TimingSection("plain", TimingGood),
                   LatencySection("plain", LatencyGood),
                   UtilizationSection("none", <<>>))
      [] name \in RowVariants ->
            Report(TimingSection("bordered", TimingGood),
                   LatencySection("bordered", LatencyGood),
                   UtilizationSection("bordered", UtilRows(name)))
      [] name = "empty" ->
            Report(<<>>, <<>>, <<>>)
      [] name = "undecodable" ->
            [readable |-> FALSE, lines |-> <<>>]

\* What parse_reports makes of each report of the catalogue (ParseFile,
\* tabulated).
Parsed == [name \in ReportNames |-> ParseFile(Content(name))]

\* ------------------------------------------------------------ the jobs

\* proc.stderr[-500:]
ExcerptLen == 500

\* max_wait of the report poll
max_wait == 3

\* Runs (an example, or a single evaluation) made one after another.
MaxRuns == 1

\* Length of a short output stream.
ShortLen == 2

VARIABLES
    pc,                       \* the statement the program is at
    job,                      \* "source", "rewritten", "single" or "main"
    args,                     \* the arguments of the running call, and the
                              \* path the caller was given
    fs,                       \* the build directory and its files
    fs0,                      \* fs when hls_evaluation was entered
    proc,                     \* the completed process
    pending,                  \* the report the tool has still to write
    wait_time,                \* parse_reports: wait_time
    report_file,              \* parse_reports: report_file
    parse,                    \* what happened in the try block of parse_reports
    report_results,           \* hls_evaluation: report_results
    result,                   \* the value hls_evaluation returned
    source_synthesizable,     \* verify_example
    rewritten_synthesizable,  \* verify_example
    verdict,                  \* the value verify_example returned
    hist,                     \* the steps hls_evaluation has taken in this call
    runs                      \* runs started so far

vars ==
    <<pc, job, args, fs, fs0, proc, pending, wait_time, report_file, parse,
      report_results, result, source_synthesizable, rewritten_synthesizable,
      verdict, hist, runs>>

None == "None"

ToolPath == "vivado_hls.bat"

LogPath == "build/vivado_hls.log"

\* build_dir / f"{top_function}_prj" / "solution1" / "syn" / "report" /
\* f"{top_function}_csynth.rpt"
ReportPath(top_function) ==
    CASE top_function = "top" ->
            "build/top_prj/solution1/syn/report/top_csynth.rpt"
      [] top_function = "fir" ->
            "build/fir_prj/solution1/syn/report/fir_csynth.rpt"

NoText == [exists |-> FALSE, content |-> <<>>]

NoNamed == [exists |-> FALSE, content |-> ""]

\* a file that exists, with its content
File(c) == [exists |-> TRUE, content |-> c]

\* build_dir.mkdir(): the directory exists and is empty
EmptyWorkspace ==
    [build |-> TRUE, headers |-> {}, src |-> NoNamed, tcl |-> NoText,
     log |-> NoText, report |-> NoNamed, debug |-> NoNamed]

\* no build directory
NoWorkspace == [EmptyWorkspace EXCEPT !.build = FALSE]

\* A build directory left by an earlier session, with that session's report.
StaleWorkspace ==
    [EmptyWorkspace EXCEPT !.report = File("good"),
                           !.log = File(<<Run("old", 1)>>)]

\* A stream of n characters: "<" and then n - 1 times c.
Stream(c, n) ==
    IF n = 0 THEN <<>>
    ELSE IF n = 1 THEN <<Run("<", 1)>>
    ELSE <<Run("<", 1), Run(c, n - 1)>>

\* (stdout, stderr) of a run: empty, short, or longer than the excerpt
Outputs ==
    {<< <<>>, <<>> >>,
     <<Stream("o", ShortLen), <<>> >>,
     <<Stream("o", ExcerptLen + 1), <<>> >>,
     <<Stream("o", ShortLen), Stream("e", ShortLen)>>,
     <<Stream("o", ShortLen), Stream("e", ExcerptLen + 1)>>,
     << <<>>, Stream("e", ExcerptLen)>>}

\* What a run of the tool may do: its exit code, its output, the report it
\* writes ("none" when it writes none) and whether the report is there when
\* the process exits (some reports may appear only later).
ToolRuns ==
    [rc : {1}, out : Outputs, rep : {"none", "good"}, atOnce : {TRUE}]
    \cup [rc : {0},
          out : {<<Stream("o", ShortLen), <<>> >>,
                 <<Stream("o", ShortLen), Stream("e", ShortLen)>>},
          rep : ReportNames \cup {"none"}, atOnce : {TRUE}]
    \cup [rc : {0},
          out : {<<Stream("o", ShortLen), <<>> >>,
                 <<Stream("o", ShortLen), Stream("e", ShortLen)>>},
          rep : {"good", "plain", "bad_target"}, atOnce : {FALSE}]

NoProc == [returncode |-> 0, stdout |-> <<>>, stderr |-> <<>>, ran |-> FALSE]

NoParse == [done |-> FALSE, exc |-> "none", fb |-> FALSE, partial |-> EmptyDict]

NoResult == [pending |-> TRUE]

NoVerdict == [pending |-> TRUE]

\* The control script with the top function set before the source is added.
tcl_script_top_first(top_function, src_name, target_device, clock_period) ==
    << <<"open_project -reset", <<top_function, "_prj">> >>,
       <<"set_top", top_function>>,
       <<"add_files", src_name>>,
       <<"open_solution -reset", "solution1">>,
       <<"set_part", target_device>>,
       <<"create_clock -period", clock_period, "-name default">>,
       <<"csynth_design">>,
       <<"exit">> >>

\* tcl_script: the directives of the control script, in order
tcl_script(top_function, src_name, target_device, clock_period) ==
    << <<"open_project -reset", <<top_function, "_prj">> >>,
       <<"add_files", src_name>>,
       <<"set_top", top_function>>,
       <<"open_solution -reset", "solution1">>,
       <<"set_part", target_device>>,
       <<"create_clock -period", clock_period, "-name default">>,
       <<"csynth_design">>,
       <<"exit">> >>

\* what is written to vivado_hls.log
LogText(p) ==
    IF p.stderr # <<>>
    THEN p.stdout \o <<Run("\n\nSTDERR:\n", 1)>> \o p.stderr
    ELSE p.stdout

ToolNotFound ==
    [error |-> <<"vivado_hls command not found">>,
     raw_log |-> <<"Command 'vivado_hls' not found">>]

FailurePrefix == "HLS synthesis failed: "

\* The failure dict with the whole stream as its message.
SynthesisFailureWhole(p) ==
    [error |-> <<Run(FailurePrefix, 1)>>
               \o (IF p.stderr # <<>> THEN p.stderr ELSE p.stdout),
     raw_log |-> IF p.stderr # <<>> THEN p.stderr ELSE p.stdout]

SynthesisFailure(p) ==
    [error |-> <<Run(FailurePrefix, 1)>>
               \o (IF p.stderr # <<>> THEN LastOfRuns(p.stderr, ExcerptLen)
                   ELSE LastOfRuns(p.stdout, ExcerptLen)),
     raw_log |-> IF p.stderr # <<>> THEN p.stderr ELSE p.stdout]

ExecutionError(e) ==
    [error |-> <<"execution error: ", e>>,
     raw_log |-> <<"Exception occurred during execution: ", e>>,
     log_file |-> None]

\* d.get(k, dflt)
Get(d, k, dflt) == IF k \in DOMAIN d THEN d[k] ELSE dflt

Success(rr, p) ==
    [status |-> "success",
     timing |-> Get(rr, "timing", EmptyDict),
     latency |-> Get(rr, "latency", EmptyDict),
     utilization |-> Get(rr, "utilization", EmptyDict),
     raw_log |-> p.stdout,
     log_file |-> LogPath]

\* The verdict from the presence of the key alone.
SynthesizableKeyOnly(r) == "timing" \in DOMAIN r

\* True if "timing" in result and result["timing"] else False
Synthesizable(r) == "timing" \in DOMAIN r /\ Truthy(r["timing"])

\* The verdicts with source_pass not negated.
VerdictUnnegated(src, rew) ==
    [source_pass |-> src,
     rewritten_pass |-> rew,
     overall_pass |-> src /\ rew]

Verdict(src, rew) ==
    [source_pass |-> ~src,
     rewritten_pass |-> rew,
     overall_pass |-> ~src /\ rew]

Init ==
    /\ pc = "idle"
    /\ job = "none"
    /\ args = [code_str |-> "", top_function |-> "top",
               vivado_hls_path |-> None, header_files |-> {}, given |-> None]
    /\ fs \in {NoWorkspace, StaleWorkspace}
    /\ fs0 = fs
    /\ proc = NoProc
    /\ pending = "none"
    /\ wait_time = 0
    /\ report_file = None
    /\ parse = NoParse
    /\ report_results = EmptyDict
    /\ result = NoResult
    /\ source_synthesizable = FALSE
    /\ rewritten_synthesizable = FALSE
    /\ verdict = NoVerdict
    /\ hist = <<>>
    /\ runs = 0

\* A new call of hls_evaluation: its locals are fresh.
Enter(fsNew) ==
    /\ fs' = fsNew
    /\ fs0' = fsNew
    /\ proc' = NoProc
    /\ wait_time' = 0
    /\ report_file' = None
    /\ parse' = NoParse
    /\ report_results' = EmptyDict
    /\ result' = NoResult
    /\ hist' = <<>>

\* The top functions of the examples.
TopFunctions == {"top", "fir"}

\* verify_example is called for an example
StartExample ==
    /\ pc = "idle" /\ runs < MaxRuns
    /\ \E path \in {None, ToolPath}, top \in TopFunctions :
         args' = [code_str |-> "source_code", top_function |-> top,
                  vivado_hls_path |-> path, header_files |-> {},
                  given |-> path]
    /\ job' = "source"
    /\ pc' = "verify_hls_code"
    /\ runs' = runs + 1
    /\ source_synthesizable' = FALSE
    /\ rewritten_synthesizable' = FALSE
    /\ verdict' = NoVerdict
    /\ UNCHANGED <<fs, fs0, proc, pending, wait_time, report_file, parse,
                   report_results, result, hist>>

\* verify_hls_code is called on its own, with or without header files
StartSingle ==
    /\ pc = "idle" /\ runs < MaxRuns
    /\ \E path \in {None, ToolPath}, hdrs \in {{}, {"defs.h"}} :
         args' = [code_str |-> "test_code", top_function |-> "top",
                  vivado_hls_path |-> path, header_files |-> hdrs,
                  given |-> path]
    /\ job' = "single"
    /\ pc' = "verify_hls_code"
    /\ runs' = runs + 1
    /\ UNCHANGED <<fs, fs0, proc, pending, wait_time, report_file, parse,
                   report_results, result, source_synthesizable,
                   rewritten_synthesizable, verdict, hist>>

\* hls_evaluation is called directly (the script's own main)
StartMain ==
    /\ pc = "idle" /\ runs < MaxRuns
    /\ \E path \in {None, ToolPath} :
         args' = [code_str |-> "test_code", top_function |-> "top",
                  vivado_hls_path |-> path, header_files |-> {},
                  given |-> path]
    /\ job' = "main"
    /\ pc' = "hls_evaluation"
    /\ runs' = runs + 1
    /\ Enter(fs)
    /\ UNCHANGED <<pending, source_synthesizable, rewritten_synthesizable,
                   verdict>>

\* verify_hls_code: makedirs(build, exist_ok=True), write the header files,
\* call hls_evaluation
VerifyHlsCode ==
    /\ pc = "verify_hls_code"
    /\ Enter([fs EXCEPT !.build = TRUE,
                        !.headers = @ \cup args.header_files])
    /\ pc' = "hls_evaluation"
    /\ UNCHANGED <<job, args, pending, source_synthesizable,
                   rewritten_synthesizable, verdict, runs>>

\* hls_evaluation with the build directory reset before the tool is looked for.
LocateToolAfterReset ==
    /\ pc = "hls_evaluation"
    /\ \/ /\ args.vivado_hls_path # None
          /\ pc' = "reset"
          /\ UNCHANGED <<args, result, fs>>
       \/ /\ args.vivado_hls_path = None
          /\ args' = [args EXCEPT !.vivado_hls_path = ToolPath]
          /\ pc' = "reset"
          /\ UNCHANGED <<result, fs>>
       \/ /\ args.vivado_hls_path = None
          /\ result' = ToolNotFound
          /\ fs' = EmptyWorkspace
          /\ pc' = "returned"
          /\ UNCHANGED args
    /\ hist' = Append(hist, "locate")
    /\ UNCHANGED <<job, fs0, proc, pending, wait_time, report_file, parse,
                   report_results, source_synthesizable,
                   rewritten_synthesizable, verdict, runs>>

\* hls_evaluation: find the tool when no path was given
LocateTool ==
    /\ pc = "hls_evaluation"
    /\ \/ /\ args.vivado_hls_path # None
          /\ pc' = "reset"
          /\ UNCHANGED <<args, result>>
       \/ /\ args.vivado_hls_path = None
          /\ args' = [args EXCEPT !.vivado_hls_path = ToolPath]
          /\ pc' = "reset"
          /\ UNCHANGED result
       \/ /\ args.vivado_hls_path = None
          /\ result' = ToolNotFound
          /\ pc' = "returned"
          /\ UNCHANGED args
    /\ hist' = Append(hist, "locate")
    /\ UNCHANGED <<job, fs, fs0, proc, pending, wait_time, report_file, parse,
                   report_results, source_synthesizable,
                   rewritten_synthesizable, verdict, runs>>

\* The build directory made if missing and otherwise kept as it is.
ResetWorkspaceKeep ==
    /\ pc = "reset"
    /\ fs' = [fs EXCEPT !.build = TRUE]
    /\ pc' = "write_src"
    /\ hist' = Append(hist, "reset")
    /\ UNCHANGED <<job, args, fs0, proc, pending, wait_time, report_file,
                   parse, report_results, result, source_synthesizable,
                   rewritten_synthesizable, verdict, runs>>

\* if build_dir.exists(): shutil.rmtree(build_dir); build_dir.mkdir()
\* A report the previous tool session had still to write is lost with the
\* project directory it was to be written to.
ResetWorkspace ==
    /\ pc = "reset"
    /\ fs' = EmptyWorkspace
    /\ pending' = "none"
    /\ pc' = "write_src"
    /\ hist' = Append(hist, "reset")
    /\ UNCHANGED <<job, args, fs0, proc, wait_time, report_file, parse,
                   report_results, result, source_synthesizable,
                   rewritten_synthesizable, verdict, runs>>

WriteSource ==
    /\ pc = "write_src"
    /\ fs' = [fs EXCEPT !.src = File(args.code_str)]
    /\ pc' = "write_tcl"
    /\ hist' = Append(hist, "write_src")
    /\ UNCHANGED <<job, args, fs0, proc, pending, wait_time, report_file,
                   parse, report_results, result, source_synthesizable,
                   rewritten_synthesizable, verdict, runs>>

TargetDevice == "xczu7ev-ffvc1156-2-e"

ClockPeriod == "5.0"

WriteScript ==
    /\ pc = "write_tcl"
    /\ fs' = [fs EXCEPT !.tcl =
                File(tcl_script(args.top_function,
                                    <<args.top_function, ".cpp">>,
                                    TargetDevice, ClockPeriod))]
    /\ pc' = "run"
    /\ hist' = Append(hist, "write_tcl")
    /\ UNCHANGED <<job, args, fs0, proc, pending, wait_time, report_file,
                   parse, report_results, result, source_synthesizable,
                   rewritten_synthesizable, verdict, runs>>

\* subprocess.run returns: the tool ran to its exit.  It has written its
\* report (rep, at once or still to come) or none.
RunProcess ==
    /\ pc = "run"
    /\ \E run \in ToolRuns :
         /\ proc' = [returncode |-> run.rc, stdout |-> run.out[1],
                     stderr |-> run.out[2], ran |-> TRUE]
         /\ fs' = IF run.rep # "none" /\ run.atOnce
                  THEN [fs EXCEPT !.report = File(run.rep)]
                  ELSE fs
         /\ pending' = IF run.rep # "none" /\ ~run.atOnce THEN run.rep
                       ELSE "none"
    /\ pc' = "save_log"
    /\ hist' = Append(hist, "spawn")
    /\ UNCHANGED <<job, args, fs0, wait_time, report_file, parse,
                   report_results, result, source_synthesizable,
                   rewritten_synthesizable, verdict, runs>>

\* subprocess.run raises (the executable cannot be started): except Exception
SpawnFails ==
    /\ pc = "run"
    /\ result' = ExecutionError("OSError")
    /\ pc' = "returned"
    /\ hist' = Append(hist, "spawn_failed")
    /\ UNCHANGED <<job, args, fs, fs0, proc, pending, wait_time, report_file,
                   parse, report_results, source_synthesizable,
                   rewritten_synthesizable, verdict, runs>>

\* The tool's report appears after the process has exited, while
\* hls_evaluation is still at work.
ToolWritesReport ==
    /\ pending # "none"
    /\ pc \in {"save_log", "check_rc", "poll", "after_poll", "assemble"}
    /\ fs' = [fs EXCEPT !.report = File(pending)]
    /\ pending' = "none"
    /\ UNCHANGED <<pc, job, args, fs0, proc, wait_time, report_file, parse,
                   report_results, result, source_synthesizable,
                   rewritten_synthesizable, verdict, hist, runs>>

SaveLog ==
    /\ pc = "save_log"
    /\ fs' = [fs EXCEPT !.log = File(LogText(proc))]
    /\ pc' = "check_rc"
    /\ hist' = Append(hist, "save_log")
    /\ UNCHANGED <<job, args, fs0, proc, pending, wait_time, report_file,
                   parse, report_results, result, source_synthesizable,
                   rewritten_synthesizable, verdict, runs>>

\* The exit code not looked at: the poll follows in any case.
CheckReturnCodeIgnored ==
    /\ pc = "check_rc"
    /\ pc' = "poll"
    /\ hist' = Append(hist, "check_rc")
    /\ UNCHANGED <<job, args, fs, fs0, proc, pending, wait_time, report_file,
                   parse, report_results, result, source_synthesizable,
                   rewritten_synthesizable, verdict, runs>>

\* if proc.returncode != 0: return {...}
CheckReturnCode ==
    /\ pc = "check_rc"
    /\ \/ /\ proc.returncode # 0
          /\ result' = SynthesisFailure(proc)
          /\ pc' = "returned"
       \/ /\ proc.returncode = 0
          /\ pc' = "poll"
          /\ UNCHANGED result
    /\ hist' = Append(hist, "check_rc")
    /\ UNCHANGED <<job, args, fs, fs0, proc, pending, wait_time, report_file,
                   parse, report_results, source_synthesizable,
                   rewritten_synthesizable, verdict, runs>>

\* The loop turn that sleeps without counting.
PollCheckNoCount ==
    /\ pc = "poll"
    /\ wait_time < max_wait
    /\ \/ /\ fs.report.exists
          /\ report_file' = ReportPath(args.top_function)
          /\ pc' = "after_poll"
          /\ hist' = Append(hist, "poll_found")
       \/ /\ ~fs.report.exists
          /\ hist' = Append(hist, "poll_absent")
          /\ UNCHANGED <<pc, report_file>>
    /\ UNCHANGED <<job, args, fs, fs0, proc, pending, wait_time, parse,
                   report_results, result, source_synthesizable,
                   rewritten_synthesizable, verdict, runs>>

\* One turn of `while wait_time < max_wait`: the report exists (break), or
\* sleep(1) and wait_time += 1.
PollCheck ==
    /\ pc = "poll"
    /\ wait_time < max_wait
    /\ \/ /\ fs.report.exists
          /\ report_file' = ReportPath(args.top_function)
          /\ pc' = "after_poll"
          /\ hist' = Append(hist, "poll_found")
          /\ UNCHANGED wait_time
       \/ /\ ~fs.report.exists
          /\ wait_time' = wait_time + 1
          /\ hist' = Append(hist, "poll_absent")
          /\ UNCHANGED <<pc, report_file>>
    /\ UNCHANGED <<job, args, fs, fs0, proc, pending, parse, report_results,
                   result, source_synthesizable, rewritten_synthesizable,
                   verdict, runs>>

\* the loop ends with wait_time = max_wait
PollExit ==
    /\ pc = "poll"
    /\ ~(wait_time < max_wait)
    /\ pc' = "after_poll"
    /\ UNCHANGED <<job, args, fs, fs0, proc, pending, wait_time, report_file,
                   parse, report_results, result, source_synthesizable,
                   rewritten_synthesizable, verdict, hist, runs>>

\* if not report_file or not report_file.exists(): return {"error": ...}
ReportMissing ==
    /\ pc = "after_poll"
    /\ report_file = None \/ ~fs.report.exists
    /\ report_results' = ReportNotFound
    /\ pc' = "assemble"
    /\ hist' = Append(hist, "not_found")
    /\ UNCHANGED <<job, args, fs, fs0, proc, pending, wait_time, report_file,
                   parse, result, source_synthesizable,
                   rewritten_synthesizable, verdict, runs>>

\* the try block of parse_reports: read the report, keep a copy of it for
\* debugging, parse it
ParseReports ==
    /\ pc = "after_poll"
    /\ report_file # None /\ fs.report.exists
    /\ LET p == Parsed[fs.report.content]
       IN  /\ parse' = [done |-> TRUE, exc |-> p.exc, fb |-> p.fb,
                        partial |-> p.partial]
           /\ report_results' = p.ret
           /\ fs' = IF p.exc # "UnicodeDecodeError"
                    THEN [fs EXCEPT !.debug = File(fs.report.content)]
                    ELSE fs
    /\ pc' = "assemble"
    /\ hist' = Append(hist, "parse")
    /\ UNCHANGED <<job, args, fs0, proc, pending, wait_time, report_file,
                   result, source_synthesizable, rewritten_synthesizable,
                   verdict, runs>>

\* return {"status": "success", ...}
AssembleResult ==
    /\ pc = "assemble"
    /\ result' = Success(report_results, proc)
    /\ pc' = "returned"
    /\ hist' = Append(hist, "assemble")
    /\ UNCHANGED <<job, args, fs, fs0, proc, pending, wait_time, report_file,
                   parse, report_results, source_synthesizable,
                   rewritten_synthesizable, verdict, runs>>

\* verify_example: source_synthesizable, then the rewritten code is verified
ClassifySource ==
    /\ pc = "returned" /\ job = "source"
    /\ source_synthesizable' = Synthesizable(result)
    /\ pc' = "classified"
    /\ UNCHANGED <<job, args, fs, fs0, proc, pending, wait_time, report_file,
                   parse, report_results, result, rewritten_synthesizable,
                   verdict, hist, runs>>

StartRewritten ==
    /\ pc = "classified" /\ job = "source"
    /\ job' = "rewritten"
    /\ args' = [args EXCEPT !.code_str = "rewritten_code",
                            !.vivado_hls_path = args.given]
    /\ pc' = "verify_hls_code"
    /\ UNCHANGED <<fs, fs0, proc, pending, wait_time, report_file, parse,
                   report_results, result, source_synthesizable,
                   rewritten_synthesizable, verdict, hist, runs>>

\* verify_example: rewritten_synthesizable
ClassifyRewritten ==
    /\ pc = "returned" /\ job = "rewritten"
    /\ rewritten_synthesizable' = Synthesizable(result)
    /\ pc' = "classified"
    /\ UNCHANGED <<job, args, fs, fs0, proc, pending, wait_time, report_file,
                   parse, report_results, result, source_synthesizable,
                   verdict, hist, runs>>

\* verify_example returns its three verdicts
ReturnVerdict ==
    /\ pc = "classified" /\ job = "rewritten"
    /\ verdict' = Verdict(source_synthesizable, rewritten_synthesizable)
    /\ pc' = "done"
    /\ UNCHANGED <<job, args, fs, fs0, proc, pending, wait_time, report_file,
                   parse, report_results, result, source_synthesizable,
                   rewritten_synthesizable, hist, runs>>

\* a single evaluation ends with print_result
FinishSingle ==
    /\ pc = "returned" /\ job \in {"single", "main"}
    /\ pc' = "done"
    /\ UNCHANGED <<job, args, fs, fs0, proc, pending, wait_time, report_file,
                   parse, report_results, result, source_synthesizable,
                   rewritten_synthesizable, verdict, hist, runs>>

\* back in the caller, which may go on to the next example or invocation;
\* the frames of the calls made are gone
NextRun ==
    /\ pc = "done"
    /\ pc' = "idle"
    /\ job' = "none"
    /\ Enter(fs)
    /\ source_synthesizable' = FALSE
    /\ rewritten_synthesizable' = FALSE
    /\ verdict' = NoVerdict
    /\ UNCHANGED <<args, pending, runs>>

Next ==
    \/ StartExample \/ StartSingle \/ StartMain \/ VerifyHlsCode
    \/ LocateTool \/ ResetWorkspace \/ WriteSource \/ WriteScript
    \/ RunProcess \/ SpawnFails \/ ToolWritesReport \/ SaveLog
    \/ CheckReturnCode \/ PollCheck \/ PollExit \/ ReportMissing
    \/ ParseReports \/ AssembleResult \/ ClassifySource \/ StartRewritten
    \/ ClassifyRewritten \/ ReturnVerdict \/ FinishSingle \/ NextRun

Spec == Init /\ [][Next]_vars

\* The program keeps running: a statement that can be executed is executed.
\* What the tool does after its exit (ToolWritesReport) and whether a further
\* run is started are not the program's to decide and carry no fairness.
Program ==
    \/ VerifyHlsCode \/ LocateTool \/ ResetWorkspace \/ WriteSource
    \/ WriteScript \/ RunProcess \/ SpawnFails \/ SaveLog
    \/ CheckReturnCode \/ PollCheck \/ PollExit \/ ReportMissing
    \/ ParseReports \/ AssembleResult

FairSpec == Spec /\ WF_vars(Program)

\* ------------------------------------------------------------ properties

\* How many times step occurs in hist
Times(step) == Cardinality({i \in 1..Len(hist) : hist[i] = step})

Took(step) == Times(step) > 0

Returned == pc = "returned"

\* The process ran to its exit with a nonzero code
ExitedNonzero == Returned /\ proc.ran /\ proc.returncode # 0

\* s[-n:] of a text
LastChars(s, n) == IF Len(s) <= n THEN s ELSE SubSeq(s, Len(s) - n + 1, Len(s))

\* The characters of the stream the failure message is cut from
FailureStream == IF proc.stderr # <<>> THEN Expand(proc.stderr) ELSE Expand(proc.stdout)

\* C1: after a nonzero exit code hls_evaluation returns an error dict and no
\* success dict; its message is the fixed prefix followed by the last
\* ExcerptLen characters (or all, when there are fewer) of stderr, or of stdout
\* when stderr is empty; the report was neither polled for nor parsed.
C1_NonzeroExitFails ==
    ExitedNonzero =>
        /\ "error" \in DOMAIN result
        /\ "status" \notin DOMAIN result
        /\ Expand(result.error) =
               <<FailurePrefix>> \o LastChars(FailureStream, ExcerptLen)
        /\ Len(Expand(result.error)) <= 1 + ExcerptLen
        /\ ~Took("poll_found") /\ ~Took("poll_absent")
        /\ ~Took("not_found") /\ ~Took("parse")
        /\ ~parse.done

\* A nonzero exit whose stderr is longer than the excerpt
C1_Witness ==
    /\ ExitedNonzero
    /\ RunsLen(proc.stderr) > ExcerptLen
    /\ Len(Expand(result.error)) = 1 + ExcerptLen

\* Exit code 0 and the report absent at each of the max_wait checks
NeverLocated ==
    /\ Returned /\ proc.ran /\ proc.returncode = 0
    /\ Times("poll_absent") = max_wait
    /\ ~Took("poll_found")

\* C2: when the process exits with code 0 and the report is absent at every
\* check of the poll, the result has status success, empty timing, latency and
\* utilization, and the path of the log file.
C2_MissingReportIsSuccess ==
    NeverLocated =>
        /\ "status" \in DOMAIN result /\ result.status = "success"
        /\ result.timing = EmptyDict
        /\ result.latency = EmptyDict
        /\ result.utilization = EmptyDict
        /\ result.log_file = LogPath /\ result.log_file # None

\* The report was never located although the tool wrote it in the end
C2_Witness == NeverLocated /\ fs.report.exists /\ Took("not_found")

\* The report was not found, or reading or parsing it raised
ReportTrouble ==
    Returned /\ (Took("not_found") \/ (parse.done /\ parse.exc # "none"))

\* C3: when the report is not found within the poll, or reading or parsing it
\* raises, the result hls_evaluation returns carries the error note that
\* parse_reports produced.
C3_ErrorNoteKept ==
    ReportTrouble =>
        /\ "error" \in DOMAIN result
        /\ result.error = report_results.error

\* C4: once the process has run to its exit the combined log is in the
\* workspace and its path is in the returned result, whatever the exit code.
C4_LogPathAlways ==
    (Returned /\ proc.ran) =>
        /\ fs.log.exists
        /\ fs.log.content = LogText(proc)
        /\ "log_file" \in DOMAIN result
        /\ result.log_file = LogPath

\* verify_example has classified the result of the call that just returned
Classified == pc = "classified"

\* The flag verify_example has just set
Flag ==
    IF job = "source" THEN source_synthesizable ELSE rewritten_synthesizable

IsSuccess(r) == "status" \in DOMAIN r /\ r.status = "success"

HasTiming(r) == "timing" \in DOMAIN r /\ r.timing # EmptyDict

\* C5 as claimed: the verdict is (success) and (timing present) and (the
\* clock name of the timing record is not empty).
C5_VerdictNeedsClockName ==
    Classified =>
        (Flag <=> /\ IsSuccess(result)
                  /\ HasTiming(result)
                  /\ result.timing.clock # <<>>)

\* C5 amended: the verdict is (success) and (a non-empty timing record is
\* present); the clock name is not looked at.
C5_VerdictIsTimingPresent ==
    Classified => (Flag <=> IsSuccess(result) /\ HasTiming(result))

\* A result classified synthesizable with an empty clock name
C5_Witness ==
    /\ Classified /\ Flag
    /\ HasTiming(result) /\ result.timing.clock = <<>>

\* verify_example has returned
Verified == pc = "done" /\ job = "rewritten"

\* C6: verify_example reports source_pass = (source not synthesizable),
\* rewritten_pass = (rewritten synthesizable) and overall_pass = both; so
\* overall_pass holds iff the source is not and the rewritten is synthesizable.
C6_VerdictFields ==
    Verified =>
        /\ verdict.source_pass = ~source_synthesizable
        /\ verdict.rewritten_pass = rewritten_synthesizable
        /\ verdict.overall_pass = (verdict.source_pass /\ verdict.rewritten_pass)
        /\ verdict.overall_pass
               <=> (~source_synthesizable /\ rewritten_synthesizable)
        /\ rewritten_synthesizable = (IsSuccess(result) /\ HasTiming(result))

\* A pair that passes: the source failed to synthesize, the rewritten did not
C6_Witness ==
    /\ Verified /\ verdict.overall_pass
    /\ ~source_synthesizable /\ HasTiming(result)

\* The report parsed is the one without border characters that holds the three
\* headers, their "* Summary:" markers and the data lines of "good"
DegradedParsed ==
    /\ Returned /\ parse.done /\ parse.fb
    /\ fs.debug.exists /\ fs.debug.content = "plain"

\* C7: on a report none of the three patterns matches but which holds each
\* section's header, summary marker and data lines, the fallback runs and the
\* result holds the timing, latency and utilization values of the report.
C7_FallbackExtracts ==
    DegradedParsed =>
        /\ result.timing = Parsed["good"].ret.timing
        /\ result.latency = Parsed["good"].ret.latency
        /\ result.utilization = Parsed["good"].ret.utilization

\* Reading or parsing the located report raised, and parse_reports is left
ParseRaised == parse.done /\ parse.exc # "none" /\ pc # "assemble"

\* C8: an exception raised while the located report is read or parsed is
\* caught in parse_reports; hls_evaluation still returns, with status success
\* and timing, latency and utilization all empty, also the sections that had
\* been parsed before the exception.
C8_ParseErrorsSwallowed ==
    ParseRaised =>
        /\ IsSuccess(result)
        /\ "error" \notin DOMAIN result
        /\ result.timing = EmptyDict
        /\ result.latency = EmptyDict
        /\ result.utilization = EmptyDict
        /\ Took("assemble") /\ ~Took("spawn_failed")

\* The fallback had parsed the timing section when the latency section raised
C8_Witness ==
    /\ ParseRaised
    /\ parse.exc = "UnboundLocalError"
    /\ parse.partial.timing # EmptyDict

\* The result is one of the three error outcomes
ErrorOutcome ==
    \/ result = ToolNotFound
    \/ (proc.ran /\ proc.returncode # 0)
    \/ Took("spawn_failed")

\* C9: every result has a status, success or error; it is error exactly for
\* the tool not found, a nonzero exit code and a process that could not be
\* started (whose message differs from that of the nonzero exit), and success
\* when the report is missing or its parsing raised.
C9_StatusOnEveryResult ==
    Returned =>
        /\ "status" \in DOMAIN result
        /\ result.status \in {"success", "error"}
        /\ (result.status = "error") <=> ErrorOutcome
        /\ Took("spawn_failed") => result.error # SynthesisFailure(proc).error
        /\ ReportTrouble => result.status = "success"

\* No path was given and the tool was not found
NotLocated == Returned /\ args.vivado_hls_path = None /\ result = ToolNotFound

\* C10: when no path is given and the tool cannot be found, hls_evaluation
\* returns the error at once: the build directory is as it was on entry, no
\* script was written and no process was started.
C10_ToolNotFoundTouchesNothing ==
    NotLocated =>
        /\ fs = fs0
        /\ hist = <<"locate">>
        /\ ~proc.ran
        /\ ~Took("reset") /\ ~Took("write_tcl") /\ ~Took("spawn")

\* The tool is not found with a build directory of an earlier session in place
C10_Witness ==
    /\ NotLocated
    /\ fs.report.exists /\ fs.log.exists /\ ~fs.tcl.exists

\* The symbols a cell of a report table is made of in the checks below
CellAlphabet == {" ", "?", "-", "1", "0", ".", "~"}

\* Longest cell text the conversions are tried on
MaxCellLen == 3

\* All cell texts of at most MaxCellLen symbols
CellTexts == UNION {[1..n -> CellAlphabet] : n \in 0..MaxCellLen}

\* The value the ordered conversion of a cycle-count text must give
OrderedConversion(s, r) ==
    IF Strip(s) = <<"?">> THEN r = PyStr(<<"?">>) /\ r # PyInt(0)
    ELSE IF IntOk(Strip(s)) THEN r = PyInt(IntVal(Strip(s)))
    ELSE IF FloatOk(Strip(s)) THEN r.t = "float" /\ r = FloatVal(Strip(s))
    ELSE r = PyStr(Strip(s))

\* safe_convert follows the ordered conversion on every cell text, and on
\* some texts with known values
SafeConvertOrdered ==
    /\ \A s \in CellTexts : OrderedConversion(s, safe_convert(s))
    /\ safe_convert(<<" ", "1", "0", "2">>) = PyInt(102)
    /\ safe_convert(<<"-", "1">>) = PyInt(-1)
    /\ safe_convert(<<" ", "?", " ">>) = PyStr(<<"?">>)
    /\ safe_convert(<<"1", ".", "5", "0">>) = PyFloat(15, 1)
    /\ safe_convert(<<"1", ".", "0">>) = PyFloat(1, 0)
    /\ safe_convert(<<"1", "~", "2">>) = PyStr(<<"1", "~", "2">>)
    /\ safe_convert(<<"-">>) = PyStr(<<"-">>)
    /\ safe_convert(<<>>) = PyStr(<<>>)

\* A result with a latency record
HasLatency == Returned /\ IsSuccess(result) /\ result.latency # EmptyDict

\* C11: each of the four cycle-count fields of a latency record is converted
\* in order: the unknown marker "?" is kept as it is (not 0, not left out),
\* else the text is read as an integer, else as a float, else the trimmed text
\* is kept; the record always holds all four fields and the pipeline type.
C11_LatencyFieldsConverted ==
    /\ SafeConvertOrdered
    /\ HasLatency =>
        /\ DOMAIN result.latency =
               {"min", "max", "interval_min", "interval_max", "pipeline_type"}
        /\ \A k \in 1..4 :
               OrderedConversion(
                   LatencyGood[k],
                   result.latency[<<"min", "max", "interval_min",
                                    "interval_max">>[k]])

\* A latency row with "?" in the max field was parsed
C11_Witness ==
    /\ HasLatency
    /\ Strip(LatencyGood[2]) = <<"?">>
    /\ result.latency.max = PyStr(<<"?">>)
    /\ result.latency.min = PyInt(102)
    /\ result.latency.interval_min = PyFloat(15, 1)

\* A used or available cell `s` and the value `r` stored for it: the dash is
\* the number 0, the unknown marker is the sentinel, and the two differ.
ResourceConversion(s, r) ==
    /\ Strip(s) = <<"-">> => r = PyInt(0) /\ r # PyStr(<<"?">>)
    /\ Strip(s) = <<"?">> => r = PyStr(<<"?">>) /\ r # PyInt(0)

SafeResourceConvertDistinct ==
    /\ \A s \in CellTexts : ResourceConversion(s, safe_resource_convert(s))
    /\ \A s, t \in CellTexts :
            Strip(s) = <<"-">> /\ Strip(t) = <<"?">>
                => safe_resource_convert(s) # safe_resource_convert(t)
    /\ safe_resource_convert(<<" ", "-">>) = PyInt(0)
    /\ safe_resource_convert(<<" ", "?">>) = PyStr(<<"?">>)

\* The result carries a utilization table read by the structural match.
HasUtilization ==
    /\ Returned
    /\ IsSuccess(result)
    /\ result.utilization # EmptyDict
    /\ "available" \in DOMAIN result.utilization
    /\ result.utilization.resources # EmptyDict

\* C12: for every used and available utilization cell a dash parses to the
\* number 0 and the unknown marker to the unresolved sentinel, the two values
\* are never equal, and every percentage cell is stored as its trimmed text,
\* unconverted.
C12_DashAndUnknownDistinct ==
    /\ SafeResourceConvertDistinct
    /\ HasUtilization =>
            \A j \in 1..5 :
                /\ ResourceConversion(UtilCanonical[8][j + 1],
                        result.utilization.resources[ResourceKinds[j]])
                /\ ResourceConversion(UtilCanonical[9][j + 1],
                        result.utilization.available[ResourceKinds[j]])
                /\ result.utilization.utilization_percentage[ResourceKinds[j]]
                        = Strip(UtilCanonical[10][j + 1])

C12_Witness ==
    /\ HasUtilization
    /\ Strip(UtilCanonical[8][3]) = <<"-">>
    /\ Strip(UtilCanonical[8][6]) = <<"?">>
    /\ result.utilization.resources[ResourceKinds[2]] = PyInt(0)
    /\ result.utilization.resources[ResourceKinds[5]] = PyStr(<<"?">>)
    /\ result.utilization.utilization_percentage[ResourceKinds[3]] = <<"~", "0">>

\* The reports whose Total, Available and Utilization rows are permuted.
RowPermutations == {"rows_TUA", "rows_ATU", "rows_AUT", "rows_UTA", "rows_UAT"}

\* The report this call parsed, "none" when it parsed none.
ParsedReport ==
    IF Took("parse") /\ fs.debug.exists THEN fs.debug.content ELSE "none"

PermutedParseEqual ==
    \A n \in RowPermutations :
        /\ Content(n) # Content("good")
        /\ Parsed[n].ret.utilization = Parsed["good"].ret.utilization

\* C13: a report whose Total, Available and Utilization rows are permuted, all
\* else equal, gives the utilization result of the canonical order, the used,
\* available and percentage rows included, for each of the permutations.
C13_RowOrderIrrelevant ==
    /\ PermutedParseEqual
    /\ Returned /\ ParsedReport \in RowPermutations =>
            /\ IsSuccess(result)
            /\ result.utilization = Parsed["good"].ret.utilization
            /\ DOMAIN result.utilization
                    = {"resources", "available", "utilization_percentage"}
            /\ result.utilization.resources # EmptyDict

C13_Witness ==
    /\ Returned
    /\ ParsedReport = "rows_UAT"
    /\ result.utilization.resources["FF"] = PyInt(15)
    /\ result.utilization.available["FF"] = PyInt(460)
    /\ result.utilization.utilization_percentage["FF"] = <<"~", "0">>

\* This call of hls_evaluation has written run.tcl.
ScriptWritten == Took("write_tcl") /\ fs.tcl.exists

\* The first word of each directive of a script.
Directives(script) == [i \in 1..Len(script) |-> script[i][1]]

DirectiveOrder ==
    <<"open_project -reset", "add_files", "set_top", "open_solution -reset",
      "set_part", "create_clock -period", "csynth_design", "exit">>

\* C14: the control script written for a job is determined by the job's top
\* function, source file name, device and clock period alone, whatever the
\* workspace held and whatever ran before, and its directives are, in order:
\* open project, add source file, set top, open solution, set part, create
\* clock with the period, run synthesis, exit.
C14_ScriptFromParameters ==
    ScriptWritten =>
        /\ Directives(fs.tcl.content) = DirectiveOrder
        /\ fs.tcl.content[1][2] = <<args.top_function, "_prj">>
        /\ fs.tcl.content[2][2] = <<args.top_function, ".cpp">>
        /\ fs.tcl.content[3][2] = args.top_function
        /\ fs.tcl.content[4][2] = "solution1"
        /\ fs.tcl.content[5][2] = TargetDevice
        /\ fs.tcl.content[6][2] = ClockPeriod
        /\ fs.tcl.content
                = tcl_script(args.top_function, <<args.top_function, ".cpp">>,
                             TargetDevice, ClockPeriod)

C14_Witness ==
    /\ ScriptWritten
    /\ Returned
    /\ args.top_function = "fir"
    /\ fs0 = StaleWorkspace
    /\ fs.tcl.content[2] = <<"add_files", <<"fir", ".cpp">> >>
    /\ fs.tcl.content[3] = <<"set_top", "fir">>

\* Every run of the stream `part` stands in the stream `whole`.
HoldsStream(whole, part) ==
    \A i \in DOMAIN part : \E j \in DOMAIN whole : whole[j] = part[i]

\* C15: every success result carries a raw_log, and the raw_log holds all the
\* process wrote, its standard output and its standard error.
C15_RawLogIsWholeOutput ==
    Returned /\ IsSuccess(result) =>
        /\ "raw_log" \in DOMAIN result
        /\ HoldsStream(result.raw_log, proc.stdout)
        /\ HoldsStream(result.raw_log, proc.stderr)
        /\ RunsLen(result.raw_log)
                >= RunsLen(proc.stdout) + RunsLen(proc.stderr)

\* The reports of the catalogue that can be read as text.
ReadableReports == {n \in ReportNames : Content(n).readable}

\* For each readable report, the sections the structural patterns match.
Matches ==
    [n \in ReadableReports |->
        [timing |-> timing_section(Content(n).lines).matched,
         latency |-> latency_section(Content(n).lines).matched,
         utilization |-> utilization_section(Content(n).lines).matched]]

\* A utilization record that holds no value of any resource.
NoUtilization(u) ==
    /\ "available" \notin DOMAIN u
    /\ \A k \in DOMAIN u : u[k] = EmptyDict

\* C16: the fallback runs exactly when none of the three patterns matches; when
\* at least one matches, each section whose pattern does not match holds no
\* values in the result, also where the fallback could have extracted them.
C16_FallbackAllOrNothing ==
    Returned /\ ParsedReport \in ReadableReports =>
        /\ parse.fb <=> /\ ~Matches[ParsedReport].timing
                        /\ ~Matches[ParsedReport].latency
                        /\ ~Matches[ParsedReport].utilization
        /\ \/ Matches[ParsedReport].timing
           \/ Matches[ParsedReport].latency
           \/ Matches[ParsedReport].utilization
           => /\ IsSuccess(result)
              /\ ~Matches[ParsedReport].timing => result.timing = EmptyDict
              /\ ~Matches[ParsedReport].latency => result.latency = EmptyDict
              /\ ~Matches[ParsedReport].utilization
                    => NoUtilization(result.utilization)

\* Timing matched structurally; latency and utilization stand in the report
\* in the plain layout and are not in the result.  With all three sections
\* plain the fallback does run and delivers the timing.
C16_Witness ==
    /\ Returned
    /\ ParsedReport = "timing_only_bordered"
    /\ ~parse.fb
    /\ Matches["timing_only_bordered"]
            = [timing |-> TRUE, latency |-> FALSE, utilization |-> FALSE]
    /\ result.timing = Parsed["good"].ret.timing
    /\ result.latency = EmptyDict
    /\ NoUtilization(result.utilization)
    /\ Parsed["plain_timing"].fb
    /\ Parsed["plain_timing"].ret.timing = Parsed["good"].ret.timing

\* The reports whose utilization table the structural pattern matches and
\* whose parse does not raise, and the ten rows of the table of each.
TableReports == {"good", "blank_clock"} \cup RowVariants

TableRows(n) == IF n \in RowVariants THEN UtilRows(n) ELSE UtilCanonical

\* The role a row's label gives it.
RoleOf(row) ==
    IF Contains(row[1], Total) THEN "used"
    ELSE IF Contains(row[1], Available) THEN "available"
    ELSE IF Contains(row[1], Utilization) THEN "percentage"
    ELSE "none"

\* The last row of the table with the given role, 0 when there is none.
LastRowOf(rows, role) ==
    SetMax({0} \cup {i \in 1..Len(rows) : RoleOf(rows[i]) = role})

\* The five resource cells of the last row with the given role.
CellsOfRole(rows, role, numeric) ==
    IF LastRowOf(rows, role) = 0 THEN EmptyDict
    ELSE [k \in {ResourceKinds[j] : j \in 1..5} |->
            LET j == CHOOSE j \in 1..5 : ResourceKinds[j] = k
                cell == Strip(rows[LastRowOf(rows, role)][j + 1])
            IN  IF numeric THEN safe_resource_convert(cell) ELSE cell]

\* What a scan of every row of each table gives.
AllRowsScanned ==
    [n \in TableReports |->
        [used |-> CellsOfRole(TableRows(n), "used", TRUE),
         available |-> CellsOfRole(TableRows(n), "available", TRUE),
         percentage |-> CellsOfRole(TableRows(n), "percentage", FALSE)]]

\* C17: in the structural utilization parse every row of the matched table is
\* classified by its label; the used, available and percentage values are
\* those of the last row labelled Total, Available and Utilization, the
\* first row of the table included, and other rows contribute nothing.
C17_EveryRowScanned ==
    Returned /\ ParsedReport \in TableReports =>
        /\ result.utilization.resources = AllRowsScanned[ParsedReport].used
        /\ Get(result.utilization, "available", EmptyDict)
                = AllRowsScanned[ParsedReport].available
        /\ result.utilization.utilization_percentage
                = AllRowsScanned[ParsedReport].percentage

\* A timing record is empty or complete: the clock and three floats.
TimingWhole(t) ==
    \/ t = EmptyDict
    \/ /\ DOMAIN t = {"clock", "target", "estimated", "uncertainty"}
       /\ \A k \in {"target", "estimated", "uncertainty"} : t[k].t = "float"

\* A report with the timing section alone, in the given layout, with the
\* k-th cell of its row replaced by the unknown marker.
TimingWith(form, k) ==
    Report(TimingSection(form, [TimingGood EXCEPT ![k] = <<" ", "?">>]),
           <<>>, <<>>)

\* Whichever numeric cell is no float, in either layout, parsing raises and
\* the timing returned is empty.
BadFieldEmptiesTiming ==
    \A form \in {"bordered", "plain"}, k \in 2..4 :
        /\ ParseFile(TimingWith(form, k)).exc = "ValueError"
        /\ ParseFile(TimingWith(form, k)).fb = (form = "plain")
        /\ ParseFile(TimingWith(form, k)).ret.timing = EmptyDict

\* The reports of the catalogue whose target cell is no float.
BadTimingReports == {"bad_target", "plain_bad_target"}

\* C18: the timing of every result is empty or a complete record of the clock
\* name and three floats; when a numeric timing cell is no float the timing
\* is empty, with the structural pattern and with the fallback alike.
C18_TimingEmptyOrWhole ==
    /\ BadFieldEmptiesTiming
    /\ ~FloatOk(Strip(TimingBadTarget[2]))
    /\ Returned /\ "timing" \in DOMAIN result => TimingWhole(result.timing)
    /\ Returned /\ ParsedReport \in BadTimingReports =>
            /\ "timing" \in DOMAIN result
            /\ result.timing = EmptyDict
            /\ parse.exc = "ValueError"

C18_Witness ==
    /\ Returned
    /\ ParsedReport = "plain_bad_target"
    /\ parse.fb
    /\ parse.exc = "ValueError"
    /\ result.timing = EmptyDict
    /\ Parsed["bad_target"].exc = "ValueError"
    /\ ~Parsed["bad_target"].fb
    /\ TimingWhole(Parsed["good"].ret.timing)
    /\ Parsed["good"].ret.timing # EmptyDict

\* The report parsed has a timing row the pattern matches, with a target
\* cell that is no float, and the latency and utilization sections of the
\* canonical report.
BadTimingParsed ==
    /\ Returned
    /\ ParsedReport = "bad_target"
    /\ Matches["bad_target"]
            = [timing |-> TRUE, latency |-> TRUE, utilization |-> TRUE]

\* C19: a numeric timing cell that is no float empties the timing only: the
\* latency and the utilization of the same report, both well-formed, are
\* parsed and returned.
C19_TimingErrorIsLocal ==
    BadTimingParsed =>
        /\ result.timing = EmptyDict
        /\ result.latency = Parsed["good"].ret.latency
        /\ result.latency # EmptyDict
        /\ result.utilization = Parsed["good"].ret.utilization

\* Checks of the report file made by the poll of this call.
Checks == Times("poll_found") + Times("poll_absent")

\* The steps of the poll stand in hist in the order of the loop: an absent
\* check is followed by the next check or, after the last one, by the
\* not-found return; a check that finds the file is followed by the parse of
\* that file.
PollOrder ==
    \A i \in 1..(Len(hist) - 1) :
        /\ hist[i] = "poll_absent" =>
                IF Times("poll_absent") >= max_wait
                   /\ i = SetMax({j \in 1..Len(hist) : hist[j] = "poll_absent"})
                THEN hist[i + 1] = "not_found"
                ELSE hist[i + 1] \in {"poll_absent", "poll_found"}
        /\ hist[i] = "poll_found" => hist[i + 1] = "parse"
        /\ hist[i] = "not_found" => hist[i + 1] = "assemble"

\* The poll is over: what it decided.
PollDecided ==
    pc \in {"assemble", "returned"} /\ Took("check_rc") /\ proc.returncode = 0
        => \/ /\ Times("poll_found") = 1
              /\ Times("poll_absent") < max_wait
              /\ Took("parse") /\ ~Took("not_found")
              /\ parse.done /\ report_file = ReportPath(args.top_function)
           \/ /\ Times("poll_found") = 0
              /\ Times("poll_absent") = max_wait
              /\ Took("not_found") /\ ~Took("parse")
              /\ report_results = ReportNotFound

PollBounded ==
    /\ wait_time <= max_wait
    /\ Checks <= max_wait
    /\ wait_time = Times("poll_absent")
    /\ Times("poll_found") <= 1
    /\ Times("not_found") <= 1
    /\ PollOrder
    /\ PollDecided

FirstAt(step) == SetMin({i \in 1..Len(hist) : hist[i] = step} \cup {Len(hist) + 1})

\* The tool of this call has been started (or could not be).
Spawned == Took("spawn") \/ Took("spawn_failed")

\* Between the reset and the start of the tool the workspace holds no report,
\* no copy of one, and none is still to come from an earlier tool session.
FreshAfterReset ==
    Took("reset") /\ ~Spawned =>
        /\ fs.build
        /\ fs.report = NoNamed
        /\ fs.debug = NoNamed
        /\ fs.log = NoText
        /\ pending = "none"

\* A report is located and parsed only after the reset and the tool's run of
\* the same call.
LocatedAfterOwnRun ==
    Took("poll_found") \/ Took("parse") =>
        /\ Took("reset") /\ Took("spawn")
        /\ FirstAt("reset") < FirstAt("spawn")
        /\ FirstAt("spawn") < FirstAt("poll_found")
        /\ fs.report.exists

\* The report file changes only when the workspace is reset, which removes
\* it, or when the tool of the running call writes it.
OnlyOwnToolWrites ==
    fs'.report # fs.report =>
        \/ pc = "reset" /\ fs'.report = NoNamed
        \/ pc = "run" /\ pc' = "save_log" /\ Took("reset")
        \/ /\ pending # "none" /\ Took("spawn")
           /\ fs'.report = File(pending)

\* C21: every job that is run starts by deleting the workspace and making it
\* anew, empty; a report a job locates and parses was written by the tool run
\* of that job, never by an earlier job, the source run of the same example
\* included.
C21_NoStaleReport ==
    /\ []FreshAfterReset
    /\ []LocatedAfterOwnRun
    /\ [][OnlyOwnToolWrites]_vars

\* The rewritten run of an example finds no report, although the source run
\* left one in the workspace.
C21_Witness ==
    /\ Returned
    /\ job = "rewritten"
    /\ fs0.report.exists
    /\ Took("reset")
    /\ Took("not_found")
    /\ ~fs.report.exists
    /\ result.timing = EmptyDict

\* The place of a step in the order of a job.
StepRank(step) ==
    CASE step = "locate" -> 0
      [] step = "reset" -> 1
      [] step = "write_src" -> 2
      [] step = "write_tcl" -> 3
      [] step \in {"spawn", "spawn_failed"} -> 4
      [] step = "save_log" -> 5
      [] step = "check_rc" -> 6
      [] step = "poll_absent" -> 7
      [] step = "poll_found" -> 8
      [] step \in {"parse", "not_found"} -> 9
      [] step = "assemble" -> 10

\* The steps taken stand in the order of the job, none taken twice but the
\* check of the poll that finds no file, and none left out on the way.
InJobOrder ==
    /\ \A i \in 1..Len(hist), j \in 1..Len(hist) :
            i < j => \/ StepRank(hist[i]) < StepRank(hist[j])
                     \/ hist[i] = "poll_absent" /\ hist[j] = "poll_absent"
    /\ \A i \in 1..Len(hist) :
            StepRank(hist[i]) <= 6 => StepRank(hist[i]) = i - 1

\* What each step has left behind when the next is taken.
StepEffects ==
    /\ Took("write_src") => fs.src.exists
    /\ Took("write_tcl") => fs.tcl.exists /\ fs.src.exists
    /\ Took("spawn") => proc.ran /\ fs.tcl.exists
    /\ Took("spawn_failed") => ~proc.ran
    /\ Took("save_log") => proc.ran /\ fs.log = File(LogText(proc))
    /\ Times("poll_found") + Times("poll_absent") > 0 =>
            proc.ran /\ proc.returncode = 0 /\ fs.log.exists
    /\ Took("parse") \/ Took("not_found") =>
            proc.ran /\ proc.returncode = 0 /\ fs.log.exists
    /\ Took("assemble") => pc # "assemble" /\ "status" \in DOMAIN result

\* When the call has returned: one locate-and-parse attempt after an exit
\* with code 0, none after another exit or a failed spawn.
AttemptsAtReturn ==
    Returned /\ Took("reset") =>
        \/ /\ Took("spawn") /\ proc.returncode = 0
           /\ Times("parse") + Times("not_found") = 1
           /\ Took("parse") <=> Took("poll_found")
           /\ Took("save_log") /\ Took("check_rc") /\ Took("assemble")
           /\ hist[Len(hist)] = "assemble"
        \/ /\ Took("spawn") /\ proc.returncode # 0
           /\ hist = <<"locate", "reset", "write_src", "write_tcl", "spawn",
                       "save_log", "check_rc">>
        \/ /\ Took("spawn_failed")
           /\ hist = <<"locate", "reset", "write_src", "write_tcl",
                       "spawn_failed">>

\* C22: the steps of a job are taken in the order reset, source write, script
\* write, spawn and wait, log write, poll, parse, result assembly; after an
\* exit with code 0 the report is looked for and parsed once, after the
\* process has ended and the log is written; after a nonzero exit or a
\* failed spawn there is no poll and no parse.
C22_StepsInOrder ==
    /\ InJobOrder
    /\ StepEffects
    /\ AttemptsAtReturn

C22_Witness ==
    /\ Returned
    /\ hist = <<"locate", "reset", "write_src", "write_tcl", "spawn",
                "save_log", "check_rc", "poll_absent", "poll_found", "parse",
                "assemble">>
    /\ proc.returncode = 0
    /\ fs.log.exists
    /\ IsSuccess(result)

\* The tool is about to be started, or has just been.
AtSpawn == pc \in {"run", "save_log"}

\* C23: the header files given to verify_hls_code are written to the workspace
\* before hls_evaluation is entered and are in the workspace when the tool
\* is started.
C23_HeadersAtSpawn ==
    /\ pc = "hls_evaluation" /\ job # "main" =>
            args.header_files \subseteq fs0.headers
    /\ AtSpawn => args.header_files \subseteq fs.headers


====
